---- MODULE Spec2Model ----
(***************************************************************************)
(* The three image generation scripts of the repository:                   *)
(*   generate-images.py          batch, one independent call per prompt    *)
(*   generate-process-images.py  batch, each image chained into the next   *)
(*   generate-hero.py            one call, no key check, no try/except     *)
(* A run is single threaded.  It suspends only in the blocking HTTP call   *)
(* and in time.sleep, so the actions are cut at those two points: all the  *)
(* straight-line code between two suspensions is one action.               *)
(***************************************************************************)
EXTENDS Integers, Sequences, FiniteSets, TLC

\* Length of the prompt list of a batch script (image_prompts, process_steps).
NumEntries == 4

\* Python's None where an object (image, response, result) is expected.
None == [none |-> TRUE]

\* os.environ.get for a variable that is not set (None, in a string-typed slot).
Unset == "<None>"

Scripts == {"images", "process", "hero"}
BatchScripts == {"images", "process"}

\* Values os.environ.get('GEMINI_API_KEY') can return: None, '' or a key.
ApiKeyValues == {Unset, "", "k3y"}

\* Output file stem of the single-image script ('hero-bg'); batch entry k
\* has stem k (the names of a prompt list are pairwise distinct).
HeroName == 0

Names == 0..NumEntries
Exts == {"png", "jpg"}
Paths == Names \X Exts

(***************************************************************************)
(* Pure functions of the scripts.                                          *)
(***************************************************************************)

\* Python truthiness of API_KEY in `if not API_KEY`.
\* Faulty variant: `if API_KEY is None`, which lets an empty key through.
Falsy_NoneOnly(v) == v = Unset

Falsy(v) == v = Unset \/ v = ""

\* Python's substring test `sub in s`.
Contains(sub, s) ==
    \E i \in 1..(Len(s) - Len(sub) + 1) : SubSeq(s, i, i + Len(sub) - 1) = sub

\* ext = 'png' if 'png' in mimeType else 'jpg'
\* Faulty variant: compares the whole mime type instead of searching it.
Ext_ExactMime(mimeType) == IF mimeType = "image/png" THEN "png" ELSE "jpg"

Ext(mimeType) == IF Contains("png", mimeType) THEN "png" ELSE "jpg"

\* base64.b64decode(data) returns the bytes; a payload whose length is not a
\* multiple of four has incorrect padding and raises binascii.Error instead.
B64Valid(data) == Len(data) % 4 = 0

\* `'inlineData' in part`
HasInline(part) == "inlineData" \in DOMAIN part

\* The inner loop `for part in parts: if 'inlineData' in part: return ...`.
RECURSIVE FirstInlineInParts(_)
FirstInlineInParts(parts) ==
    IF parts = <<>> THEN None
    ELSE IF HasInline(Head(parts))
         THEN [mimeType |-> Head(parts).inlineData.mimeType,
               data     |-> Head(parts).inlineData.data]
         ELSE FirstInlineInParts(Tail(parts))

\* Faulty variant of the scan: keeps the last inlineData part, not the first.
RECURSIVE LastInlineInParts(_)
LastInlineInParts(parts) ==
    IF parts = <<>> THEN None
    ELSE IF LastInlineInParts(Tail(parts)) # None
         THEN LastInlineInParts(Tail(parts))
         ELSE IF HasInline(Head(parts))
              THEN [mimeType |-> Head(parts).inlineData.mimeType,
                    data     |-> Head(parts).inlineData.data]
              ELSE None

\* The outer loop `for candidate in candidates:` around the inner one.
RECURSIVE FirstInlineData_Last(_)
FirstInlineData_Last(candidates) ==
    IF candidates = <<>> THEN None
    ELSE IF FirstInlineData_Last(Tail(candidates)) # None
         THEN FirstInlineData_Last(Tail(candidates))
         ELSE LastInlineInParts(Head(candidates))

RECURSIVE FirstInlineData(_)
FirstInlineData(candidates) ==
    IF candidates = <<>> THEN None
    ELSE IF FirstInlineInParts(Head(candidates)) # None
         THEN FirstInlineInParts(Head(candidates))
         ELSE FirstInlineData(Tail(candidates))

(***************************************************************************)
(* The remote service: what one HTTPS POST can come back with.             *)
(*   status 0    no response (URLError, timeout)                           *)
(*   status 429  urllib raises HTTPError                                   *)
(*   status 200  a JSON body, with or without an 'error' key               *)
(***************************************************************************)
Text(t) == [text |-> t]
Inline(m, d) == [inlineData |-> [mimeType |-> m, data |-> d]]

Body(hasError, candidates) ==
    [status |-> 200, hasError |-> hasError, candidates |-> candidates]

Responses ==
    { [status |-> 0,   hasError |-> FALSE, candidates |-> <<>>],
      [status |-> 429, hasError |-> FALSE, candidates |-> <<>>],
      Body(TRUE,  << <<Inline("image/png", "QUJD")>> >>),
      Body(FALSE, <<>>),
      Body(FALSE, << <<Text("a")>>, <<Text("b")>> >>),
      Body(FALSE, << <<Text("a"), Inline("image/png", "QUJD")>> >>),
      Body(FALSE, << <<Text("a")>>,
                     <<Inline("image/jpeg", "R0lG"), Inline("image/png", "QUJD")>> >>),
      Body(FALSE, << <<Inline("image/x-png", "eHBu")>>, <<Inline("image/jpeg", "R0lG")>> >>),
      Body(FALSE, << <<Inline("image/webp", "UklG")>> >>),
      Body(FALSE, << <<Inline("image/png", "QUJ")>> >>) }

\* What Path.write_bytes can do: succeed, fail in open() (nothing is touched),
\* or fail in write() after open() truncated the file.
WriteOutcomes == {"ok", "open_fails", "write_fails"}

\* The result of one generate_image call of a batch script.
Returned(image) == [ok |-> TRUE, image |-> image, error |-> ""]
Raised(error) == [ok |-> FALSE, image |-> None, error |-> error]

GenerateImage(resp) ==
    IF resp.status = 0 THEN Raised("URLError")
    ELSE IF resp.status # 200 THEN Raised("HTTP")
    ELSE IF resp.hasError THEN Raised("api error")
    ELSE IF FirstInlineData(resp.candidates) # None
         THEN Returned(FirstInlineData(resp.candidates))
         ELSE Raised("No image in response")

\* The result of one save_image call: whether it raised, the path it chose
\* and what it left at that path.
\* Faulty variant: the file stem does not depend on the entry's name.
SaveImage_FixedStem(name, image_data, w) ==
    [path    |-> <<1, Ext(image_data.mimeType)>>,
     raised  |-> ~B64Valid(image_data.data) \/ w # "ok",
     content |-> IF ~B64Valid(image_data.data) \/ w = "open_fails" THEN "untouched"
                 ELSE IF w = "write_fails" THEN "partial" ELSE "complete"]

\* Faulty variant: save_image swallows its own exceptions.
SaveImage_Swallow(name, image_data, w) ==
    [path    |-> <<name, Ext(image_data.mimeType)>>,
     raised  |-> FALSE,
     content |-> IF ~B64Valid(image_data.data) \/ w = "open_fails" THEN "untouched"
                 ELSE IF w = "write_fails" THEN "partial" ELSE "complete"]

SaveImage(name, image_data, w) ==
    [path    |-> <<name, Ext(image_data.mimeType)>>,
     raised  |-> ~B64Valid(image_data.data) \/ w # "ok",
     content |-> IF ~B64Valid(image_data.data) \/ w = "open_fails" THEN "untouched"
                 ELSE IF w = "write_fails" THEN "partial" ELSE "complete"]

NoSave == [path |-> <<>>, raised |-> FALSE, content |-> "untouched"]

\* The statements of main that the claims turn on.
\* Faulty variant: the first image stays the context of every later call.
ChainContext_Anchor(previous, image_data) == IF previous = None THEN image_data ELSE previous

ChainContext(previous, image_data) == image_data           \* previous_image = image_data

\* Faulty variant: the handler leaves previous_image as it was.
ContextAfterFailure_Keep(previous) == previous

ContextAfterFailure(previous) == None                      \* previous_image = None

\* Faulty variant: a success is counted twice.
SuccessfulAfterSave_Twice(n) == n + 2

SuccessfulAfterSave(n) == n + 1                            \* successful += 1

\* Faulty variant: the loop is left after the first entry.
NextEntry_Abort(i) == NumEntries + 1

NextEntry(i) == i + 1                                      \* the for loop moves on

FailedAfterFailure(n) == n + 1                             \* failed += 1

(***************************************************************************)
(* State.                                                                  *)
(***************************************************************************)
VARIABLES
    script,          \* which script this run executes
    API_KEY,         \* the module-level API_KEY
    pc,              \* start | loop | inflight | sleeping | done | exited
    exitCode,        \* process exit status, -1 while running
    dirMade,         \* images_dir.mkdir has run
    idx,             \* 1-based position of the for loop
    successful,      \* main's counter
    failed,          \* main's counter
    previous_image,  \* main's chaining context (process script)
    status,          \* per entry: pending | inflight | saved | failed
    generated,       \* entries whose generate_image call returned an image
    files,           \* per path: absent | partial | complete (this run)
    events,          \* the run's calls and sleeps, in order
    callCtx,         \* previous_image argument of the latest generate_image call
    lastResp,        \* response the latest call received
    lastGen,         \* what the latest generate_image call returned or raised
    lastWrite,       \* what write_bytes would do / did in the latest iteration
    lastSave         \* what the latest save_image call did

vars == <<script, API_KEY, pc, exitCode, dirMade, idx, successful, failed,
          previous_image, status, generated, files, events, callCtx, lastResp, lastGen,
          lastWrite, lastSave>>

Init ==
    /\ script \in Scripts
    /\ API_KEY \in ApiKeyValues
    /\ pc = "start"
    /\ exitCode = -1
    /\ dirMade = FALSE
    /\ idx = 1
    /\ successful = 0
    /\ failed = 0
    /\ previous_image = None
    /\ status = [k \in 1..NumEntries |-> "pending"]
    /\ generated = {}
    /\ files = [p \in Paths |-> "absent"]
    /\ events = <<>>
    /\ callCtx = None
    /\ lastResp = None
    /\ lastGen = None
    /\ lastWrite = "n/a"
    /\ lastSave = NoSave

Written(save) ==
    IF save.content = "untouched" THEN files
    ELSE [files EXCEPT ![save.path] = save.content]

history == <<events, callCtx, lastResp, lastGen, lastWrite, lastSave>>
loopState == <<idx, successful, failed, previous_image, status, generated>>

(***************************************************************************)
(* Module level of the batch scripts: the key check, then mkdir.           *)
(***************************************************************************)
KeyMissingExit ==
    /\ script \in BatchScripts
    /\ pc = "start"
    /\ Falsy(API_KEY)
    /\ pc' = "exited"
    /\ exitCode' = 1
    /\ UNCHANGED <<script, API_KEY, dirMade, loopState, files, history>>

Startup ==
    /\ script \in BatchScripts
    /\ pc = "start"
    /\ ~Falsy(API_KEY)
    /\ dirMade' = TRUE
    /\ pc' = "loop"
    /\ UNCHANGED <<script, API_KEY, exitCode, loopState, files, history>>

(***************************************************************************)
(* main of generate-images.py.                                             *)
(***************************************************************************)
ImagesCall ==
    /\ script = "images"
    /\ pc = "loop"
    /\ idx <= NumEntries
    /\ pc' = "inflight"
    /\ status' = [status EXCEPT ![idx] = "inflight"]
    /\ events' = Append(events, <<"call", idx>>)
    /\ callCtx' = None
    /\ UNCHANGED <<script, API_KEY, exitCode, dirMade, idx, successful, failed,
                   previous_image, generated, files, lastResp, lastGen, lastWrite,
                   lastSave>>

ImagesReturn ==
    /\ script = "images"
    /\ pc = "inflight"
    /\ \E resp \in Responses, w \in WriteOutcomes :
         LET gen  == GenerateImage(resp)
             save == IF gen.ok THEN SaveImage(idx, gen.image, w) ELSE NoSave
         IN  /\ lastResp' = resp
             /\ lastGen' = gen
             /\ lastWrite' = IF gen.ok /\ B64Valid(gen.image.data) THEN w ELSE "n/a"
             /\ lastSave' = save
             /\ files' = Written(save)
             /\ generated' = IF gen.ok THEN generated \cup {idx} ELSE generated
             /\ IF gen.ok /\ ~save.raised
                THEN /\ successful' = SuccessfulAfterSave(successful)
                     /\ status' = [status EXCEPT ![idx] = "saved"]
                     /\ pc' = "sleeping"
                     /\ UNCHANGED <<failed, idx>>
                ELSE /\ failed' = FailedAfterFailure(failed)
                     /\ status' = [status EXCEPT ![idx] = "failed"]
                     /\ pc' = "loop"
                     /\ idx' = NextEntry(idx)
                     /\ UNCHANGED successful
    /\ UNCHANGED <<script, API_KEY, exitCode, dirMade, previous_image, events, callCtx>>

ImagesSleep ==
    /\ script = "images"
    /\ pc = "sleeping"
    /\ events' = Append(events, <<"sleep", idx>>)
    /\ idx' = NextEntry(idx)
    /\ pc' = "loop"
    /\ UNCHANGED <<script, API_KEY, exitCode, dirMade, successful, failed,
                   previous_image, status, generated, files, callCtx, lastResp,
                   lastGen, lastWrite, lastSave>>

ImagesFinish ==
    /\ script = "images"
    /\ pc = "loop"
    /\ idx > NumEntries
    /\ pc' = "done"
    /\ exitCode' = 0
    /\ UNCHANGED <<script, API_KEY, dirMade, loopState, files, history>>

(***************************************************************************)
(* main of generate-process-images.py.                                     *)
(***************************************************************************)
ProcessCall ==
    /\ script = "process"
    /\ pc = "loop"
    /\ idx <= NumEntries
    /\ pc' = "inflight"
    /\ status' = [status EXCEPT ![idx] = "inflight"]
    /\ events' = Append(events, <<"call", idx>>)
    /\ callCtx' = previous_image
    /\ UNCHANGED <<script, API_KEY, exitCode, dirMade, idx, successful, failed,
                   previous_image, generated, files, lastResp, lastGen, lastWrite,
                   lastSave>>

ProcessReturn ==
    /\ script = "process"
    /\ pc = "inflight"
    /\ \E resp \in Responses, w \in WriteOutcomes :
         LET gen  == GenerateImage(resp)
             save == IF gen.ok THEN SaveImage(idx, gen.image, w) ELSE NoSave
         IN  /\ lastResp' = resp
             /\ lastGen' = gen
             /\ lastWrite' = IF gen.ok /\ B64Valid(gen.image.data) THEN w ELSE "n/a"
             /\ lastSave' = save
             /\ files' = Written(save)
             /\ generated' = IF gen.ok THEN generated \cup {idx} ELSE generated
             /\ IF gen.ok /\ ~save.raised
                THEN /\ previous_image' = ChainContext(previous_image, gen.image)
                     /\ successful' = SuccessfulAfterSave(successful)
                     /\ status' = [status EXCEPT ![idx] = "saved"]
                     /\ pc' = "sleeping"
                     /\ UNCHANGED <<failed, idx>>
                ELSE /\ failed' = FailedAfterFailure(failed)
                     /\ previous_image' = ContextAfterFailure(previous_image)
                     /\ status' = [status EXCEPT ![idx] = "failed"]
                     /\ pc' = "loop"
                     /\ idx' = NextEntry(idx)
                     /\ UNCHANGED successful
    /\ UNCHANGED <<script, API_KEY, exitCode, dirMade, events, callCtx>>

ProcessSleep ==
    /\ script = "process"
    /\ pc = "sleeping"
    /\ events' = Append(events, <<"sleep", idx>>)
    /\ idx' = NextEntry(idx)
    /\ pc' = "loop"
    /\ UNCHANGED <<script, API_KEY, exitCode, dirMade, successful, failed,
                   previous_image, status, generated, files, callCtx, lastResp,
                   lastGen, lastWrite, lastSave>>

ProcessFinish ==
    /\ script = "process"
    /\ pc = "loop"
    /\ idx > NumEntries
    /\ pc' = "done"
    /\ exitCode' = 0
    /\ UNCHANGED <<script, API_KEY, dirMade, loopState, files, history>>

(***************************************************************************)
(* generate-hero.py: no key check, one call, no exception handler.         *)
(***************************************************************************)
HeroCall ==
    /\ script = "hero"
    /\ pc = "start"
    /\ dirMade' = TRUE
    /\ pc' = "inflight"
    /\ events' = Append(events, <<"call", HeroName>>)
    /\ UNCHANGED <<script, API_KEY, exitCode, loopState, files, callCtx,
                   lastResp, lastGen, lastWrite, lastSave>>

\* What generate-hero.py's generate_image does with the response: an uncaught
\* exception (exit status 1), a saved file, or 'No image generated'.
HeroOutcome(resp, w) ==
    IF resp.status # 200
    THEN [raised |-> TRUE, image |-> None, save |-> NoSave]
    ELSE IF FirstInlineData(resp.candidates) = None
         THEN [raised |-> FALSE, image |-> None, save |-> NoSave]
         ELSE LET image == FirstInlineData(resp.candidates)
                  save  == SaveImage(HeroName, image, w)
              IN  [raised |-> save.raised, image |-> image, save |-> save]

HeroReturn ==
    /\ script = "hero"
    /\ pc = "inflight"
    /\ \E resp \in Responses, w \in WriteOutcomes :
         LET out == HeroOutcome(resp, w)
         IN  /\ lastResp' = resp
             /\ lastGen' = IF out.image = None THEN None ELSE Returned(out.image)
             /\ lastWrite' = IF out.image # None /\ B64Valid(out.image.data) THEN w ELSE "n/a"
             /\ lastSave' = out.save
             /\ files' = Written(out.save)
             /\ pc' = IF out.raised THEN "exited" ELSE "done"
             /\ exitCode' = IF out.raised THEN 1 ELSE 0
    /\ UNCHANGED <<script, API_KEY, dirMade, loopState, events, callCtx>>

Next ==
    \/ KeyMissingExit
    \/ Startup
    \/ ImagesCall
    \/ ImagesReturn
    \/ ImagesSleep
    \/ ImagesFinish
    \/ ProcessCall
    \/ ProcessReturn
    \/ ProcessSleep
    \/ ProcessFinish
    \/ HeroCall
    \/ HeroReturn

Spec == Init /\ [][Next]_vars

(***************************************************************************)
(* Vocabulary of the properties.                                           *)
(***************************************************************************)
Batch == script \in BatchScripts

\* The entries generate_image was called for, in call order.
RECURSIVE CallsOf(_)
CallsOf(evs) ==
    IF evs = <<>> THEN <<>>
    ELSE IF Head(evs)[1] = "call" THEN <<Head(evs)[2]>> \o CallsOf(Tail(evs))
         ELSE CallsOf(Tail(evs))

Calls == CallsOf(events)

\* A response has been received and handled (by the latest Return step).
Handled == lastResp # None

\* The entry (file stem) of the latest call whose response has been handled:
\* the call before the one in flight, or else the latest call.
LastHandled == IF pc = "inflight" THEN Calls[Len(Calls) - 1] ELSE Calls[Len(Calls)]

Done(k) == status[k] \in {"saved", "failed"}
CompleteFiles == {p \in Paths : files[p] = "complete"}
TouchedFiles == {p \in Paths : files[p] # "absent"}
HasCompleteFile(k) == \E e \in Exts : files[<<k, e>>] = "complete"

\* The latest iteration of a batch script generated an image and then failed
\* in save_image: base64 decoding raised, or write_bytes did.
PersistFailed == Handled /\ lastGen.ok /\ lastWrite # "ok"

\* The positions <<candidate, part>> of a response body that carry inlineData.
InlinePositions(cands) ==
    UNION { { <<c, p>> : p \in {q \in 1..Len(cands[c]) : HasInline(cands[c][q])} }
            : c \in 1..Len(cands) }

Before(a, b) == a[1] < b[1] \/ (a[1] = b[1] /\ a[2] < b[2])

\* image is the inlineData of the earliest position carrying one.
IsFirstInline(cands, image) ==
    \E pos \in InlinePositions(cands) :
        /\ \A q \in InlinePositions(cands) : q = pos \/ Before(pos, q)
        /\ image = cands[pos[1]][pos[2]].inlineData

\* A 200 response whose body reports no application-level error.
NonError(resp) == resp.status = 200 /\ ~resp.hasError

OtherExt(e) == IF e = "png" THEN "jpg" ELSE "png"

(***************************************************************************)
(* C1.  Chaining script: when step k fails, the generate call for step     *)
(* k+1 is made with previous_image None, not with the image of step k-1.   *)
(***************************************************************************)
C1_FailedStepResetsContext ==
    (script = "process" /\ pc = "inflight" /\ idx > 1 /\ status[idx - 1] = "failed")
        => callCtx = None

\* Step k-1 was saved (so there was an image to carry), step k failed, and
\* the call for step k+1 is in flight.
C1_Witness ==
    /\ script = "process" /\ pc = "inflight" /\ idx >= 3
    /\ status[idx - 2] = "saved" /\ status[idx - 1] = "failed"
    /\ callCtx = None

(***************************************************************************)
(* C2.  A batch in which some generate calls fail does not abort: generate *)
(* is attempted exactly once per entry, in list order, the run ends with   *)
(* exit status 0 and successful + failed = N.                              *)
(***************************************************************************)
C2_BatchContinuesPastFailures ==
    Batch =>
        /\ Calls = [i \in 1..Len(Calls) |-> i]
        /\ (pc = "exited" => events = <<>>)
        /\ (pc \in {"loop", "inflight", "sleeping"} => ENABLED Next)
        /\ (pc = "done" => /\ Len(Calls) = NumEntries
                           /\ successful + failed = NumEntries
                           /\ exitCode = 0)

\* A finished batch whose first call failed and which had later failures and
\* successes.
C2_Witness ==
    /\ Batch /\ pc = "done"
    /\ status[1] = "failed" /\ failed >= 2 /\ successful >= 1
    /\ Len(Calls) = NumEntries

C4_MissingKeyStopsBeforeAnything ==
    (Batch /\ API_KEY \in {Unset, ""})
        => /\ pc \in {"start", "exited"}
           /\ (pc = "start" => ENABLED KeyMissingExit /\ ~ENABLED Startup)
           /\ (pc = "exited" => exitCode = 1)
           /\ events = <<>>
           /\ TouchedFiles = {}
           /\ ~dirMade
           /\ \A k \in 1..NumEntries : status[k] = "pending"

\* A batch script started with an empty key has exited with status 1.
C4_Witness == Batch /\ API_KEY = "" /\ pc = "exited" /\ exitCode = 1

(***************************************************************************)
(* C5.  Between every two successive generate calls of a batch the fixed   *)
(* delay elapses: no call directly follows another call.                   *)
(***************************************************************************)
C5_DelayBetweenCalls ==
    Batch => \A i \in 2..Len(events) :
                 events[i][1] = "call" => events[i - 1][1] = "sleep"

(***************************************************************************)
(* C6 as stated.  In every script, single-image one included: given a      *)
(* non-error response, generate yields the first part carrying inlineData  *)
(* (candidates in order, then parts in order), and if no part carries      *)
(* inlineData the operation fails with a no-image error instead of         *)
(* completing normally.                                                    *)
(***************************************************************************)
C6_FirstInlineOrFail_AsStated ==
    (Handled /\ NonError(lastResp)) =>
        IF InlinePositions(lastResp.candidates) # {}
        THEN lastGen # None /\ lastGen.ok
             /\ IsFirstInline(lastResp.candidates, lastGen.image)
        ELSE IF Batch
             THEN lastGen = Raised("No image in response")
             ELSE pc = "exited" /\ exitCode # 0

(***************************************************************************)
(* C6 amended.  In the two batch scripts generate, given a non-error       *)
(* response, returns the first part carrying inlineData and raises 'No     *)
(* image in response' when no part carries one.  The single-image script   *)
(* takes the same first part, but when no part carries inlineData it       *)
(* completes normally (exit status 0) without writing a file.              *)
(***************************************************************************)
C6_FirstInlineOrFail ==
    (Handled /\ NonError(lastResp)) =>
        IF InlinePositions(lastResp.candidates) # {}
        THEN lastGen # None /\ lastGen.ok
             /\ IsFirstInline(lastResp.candidates, lastGen.image)
        ELSE IF Batch
             THEN /\ lastGen = Raised("No image in response")
                  /\ status[LastHandled] = "failed"
             ELSE pc = "done" /\ exitCode = 0 /\ TouchedFiles = {}

\* A batch script has taken the first image of a body whose second candidate
\* carries two images after a first candidate without any.
C6_Witness ==
    /\ Batch /\ Handled /\ NonError(lastResp)
    /\ Len(lastResp.candidates) = 2
    /\ InlinePositions(lastResp.candidates) = {<<2, 1>>, <<2, 2>>}
    /\ lastGen.ok /\ lastGen.image.mimeType = "image/jpeg"

(***************************************************************************)
(* C7 as stated.  Every persist (save_image) call writes exactly one of <name>.png and  *)
(* <name>.jpg: the .png path when the mime type contains "png", the .jpg   *)
(* path for every other mime type.                                         *)
(***************************************************************************)
C7_ExactlyOnePathPerCall_AsStated ==
    (Batch /\ Handled /\ lastSave # NoSave) =>
        LET want == <<LastHandled,
                      IF Contains("png", lastGen.image.mimeType) THEN "png" ELSE "jpg">>
            other == <<want[1], OtherExt(want[2])>>
        IN  files[want] # "absent" /\ files[other] = "absent"

(***************************************************************************)
(* C7 amended.  Every persist call chooses the path <name>.png when the    *)
(* mime type contains "png" and <name>.jpg for every other mime type, and  *)
(* never touches the other path.  A call that returns has written exactly  *)
(* the chosen path; a call that raises (base64 decoding or the write       *)
(* failed) has written no complete file.                                   *)
(***************************************************************************)
C7_PathFromMimeType ==
    (Batch /\ Handled /\ lastSave # NoSave) =>
        LET want == <<LastHandled,
                      IF Contains("png", lastGen.image.mimeType) THEN "png" ELSE "jpg">>
            other == <<want[1], OtherExt(want[2])>>
        IN  /\ lastSave.path = want
            /\ files[other] = "absent"
            /\ (~lastSave.raised => files[want] = "complete")
            /\ (lastSave.raised => files[want] \in {"absent", "partial"})

\* A persist call has written a .png file for a mime type that contains
\* "png" without being image/png.
C7_Witness ==
    /\ Batch /\ Handled /\ lastSave # NoSave /\ ~lastSave.raised
    /\ lastGen.image.mimeType = "image/x-png"
    /\ files[<<LastHandled, "png">>] = "complete"

(***************************************************************************)
(* C8.  Chaining script: the context of the call for step k+1 is step k's  *)
(* image when step k generated and persisted successfully, and None in     *)
(* every other case; the first call has no context.  No image is carried   *)
(* across more than one step.                                              *)
(***************************************************************************)
C8_ContextIsPreviousStepOnly ==
    (script = "process" /\ pc = "inflight") =>
        IF idx = 1 THEN callCtx = None
        ELSE /\ callCtx = (IF lastGen.ok /\ lastWrite = "ok" THEN lastGen.image ELSE None)
             /\ (callCtx # None <=> status[idx - 1] = "saved")

\* Steps k-1 and k were both saved and the call for step k+1 carries an image.
C8_Witness ==
    /\ script = "process" /\ pc = "inflight" /\ idx >= 3
    /\ status[idx - 2] = "saved" /\ status[idx - 1] = "saved"
    /\ callCtx # None

(***************************************************************************)
(* C9.  Batch scripts: when save_image fails after generate_image returned *)
(* an image, the entry is counted once as failed and never as successful,  *)
(* the batch moves on to the next entry, and in the chaining script the    *)
(* next call gets no context.                                              *)
(***************************************************************************)
C9_PersistFailureIsAFailure ==
    (Batch /\ PersistFailed) =>
        /\ pc \in {"loop", "inflight", "done"}
        /\ idx = LastHandled + 1
        /\ (pc = "inflight" => Calls[Len(Calls)] = idx /\ callCtx = None)
        /\ (pc = "loop" => previous_image = None /\ ENABLED Next)
        /\ LET k == LastHandled
           IN  /\ status[k] = "failed"
               /\ ~HasCompleteFile(k)
               /\ successful = Cardinality({j \in 1..NumEntries : status[j] = "saved"})
               /\ failed = Cardinality({j \in 1..NumEntries : status[j] = "failed"})

\* The chaining script generated an image after a saved step, failed to
\* write it, and is back at the loop head.
C9_Witness ==
    /\ script = "process" /\ PersistFailed /\ lastWrite = "write_fails"
    /\ pc = "loop" /\ idx >= 3 /\ status[idx - 2] = "saved"
    /\ files[lastSave.path] = "partial"

(***************************************************************************)
(* C10.  At every point of a batch run successful is the number of entries *)
(* whose file is completely written, failed is the number of entries whose *)
(* generate or persist raised, and their sum is the number of entries      *)
(* processed.  A counter never decreases, and an entry moves one counter   *)
(* by one, once: pending to saved or to failed, never both.                *)
(***************************************************************************)
C10_State ==
    Batch =>
        /\ successful = Cardinality({k \in 1..NumEntries : HasCompleteFile(k)})
        /\ failed = Cardinality({k \in 1..NumEntries : status[k] = "failed"})
        /\ successful + failed = Cardinality({k \in 1..NumEntries : Done(k)})
        /\ \A k \in 1..NumEntries : status[k] = "saved" <=> HasCompleteFile(k)

C10_Step ==
    Batch =>
        /\ successful' >= successful
        /\ failed' >= failed
        /\ \A k \in 1..NumEntries :
             /\ Done(k) => status'[k] = status[k]
             /\ (status[k] # "saved" /\ status'[k] = "saved")
                    => successful' = successful + 1 /\ failed' = failed
             /\ (status[k] # "failed" /\ status'[k] = "failed")
                    => failed' = failed + 1 /\ successful' = successful
        /\ (successful' # successful \/ failed' # failed)
               => \E k \in 1..NumEntries : ~Done(k) /\ status'[k] \in {"saved", "failed"}

C10_CountersMatchEntries == []C10_State /\ [][C10_Step]_vars

\* Mid-run: entries saved, entries failed (one leaving a partial file) and
\* entries still pending.
C10_Witness ==
    /\ Batch /\ successful >= 1 /\ failed >= 1
    /\ \E p \in Paths : files[p] = "partial"
    /\ \E k \in 1..NumEntries : status[k] = "pending"

====
